---- MODULE Spec2Model ----
(***************************************************************************)
(* Employee management system: Person, Wage (SalariedWage / HourlyWage),   *)
(* Employee (pay and vacation bookkeeping), Company (owned employee list)  *)
(* and VacationDaysShortageError.                                          *)
(*                                                                         *)
(* Ownership follows the Rust source: an Employee is created by            *)
(* Employee::new and is owned by the caller (held) until it is moved into  *)
(* a Company by Company::new or Company::add_employee.  Company.employees  *)
(* is private and only handed out as &Vec by all_employees, so the &mut    *)
(* methods (pay, take_vacation, payout_vacation) can only be called on an  *)
(* Employee the caller still holds.                                        *)
(*                                                                         *)
(* f32 amounts are modelled on the non-negative integer-valued floats:     *)
(* a product is rounded to 24 significant bits, ties to even.              *)
(***************************************************************************)
EXTENDS Integers, Sequences, FiniteSets, TLC

\* ------------------------------------------------------------------ bounds

\* Employee lifetime (SpecEmployee): one employee, vacation_days given to
\* Employee::new in 0..MaxVacationDays or u8::MAX, days given to take_vacation
\* in 0..MaxRequest or u8::MAX.
MaxVacationDays == 6

MaxRequest == 8

\* Company (Spec): up to MaxEmployees employees, with balances and requests
\* around the payout quantum.
MaxEmployees == 2

\* ------------------------------------------------------- program constants

\* u8::MAX, the width of vacation_days, days, requested_days, remaining_days.
U8Max == 255

\* f32::MANTISSA_DIGITS, the precision of calculate_pay's result.
F32MantissaDigits == 24

FIXED_VACATION_DAYS_PAYOUT == 5

ShortageMessage == "Not enough vacation days are available."

\* ------------------------------------------------------------ f32 products

RECURSIVE Pow2(_)
Pow2(n) == IF n = 0 THEN 1 ELSE 2 * Pow2(n - 1)

\* Spacing of the f32 values around n >= 0: 1 below 2^24, then doubling.
RECURSIVE F32Ulp(_, _)
F32Ulp(n, u) == IF n < Pow2(F32MantissaDigits) * u THEN u ELSE F32Ulp(n, 2 * u)

\* Round the real number n to the nearest f32, ties to even.
F32Round(n) ==
    LET u == F32Ulp(n, 1)
        q == n \div u
        r == n % u
    IN  IF 2 * r > u \/ (2 * r = u /\ q % 2 = 1) THEN (q + 1) * u ELSE q * u

\* Faulty variant: the product kept at full precision, as f64 would.
F32Mul_unrounded(a, b) == a * b

\* a * b on f32 operands.
F32Mul(a, b) == F32Round(a * b)

\* ---------------------------------------------------------------- values

Person_new(name, age) == [name |-> name, age |-> age]

SalariedWage_new(monthly_salary) ==
    [type |-> "SalariedWage", monthly_salary |-> monthly_salary]

HourlyWage_new(hourly_rate, hours_worked) ==
    [type |-> "HourlyWage", hourly_rate |-> hourly_rate,
     hours_worked |-> hours_worked]

SalariedWage_calculate_pay(self) == self.monthly_salary

HourlyWage_calculate_pay(self) == F32Mul(self.hourly_rate, self.hours_worked)

\* Static dispatch on W: Wage.
calculate_pay(wage) ==
    IF wage.type = "SalariedWage" THEN SalariedWage_calculate_pay(wage)
    ELSE HourlyWage_calculate_pay(wage)

Employee_new(person, role, wage, vacation_days) ==
    [person |-> person, role |-> role, wage |-> wage,
     vacation_days |-> vacation_days]

\* Return values.
Unit == [tag |-> "unit"]
Ok == [tag |-> "Ok"]
Err(requested_days, remaining_days, message) ==
    [tag |-> "Err", requested_days |-> requested_days,
     remaining_days |-> remaining_days, message |-> message]
F32(value) == [tag |-> "f32", value |-> value]
Ref(value) == [tag |-> "ref", value |-> value]

\* Lines written by println!.
NoOutput == [line |-> "", args |-> << >>]
Println(line, args) == [line |-> line, args |-> args]

\* Record of a call of the private subtract_vacation_days.
NoSubtract == [called |-> FALSE]
Subtract(vacation_days, days) ==
    [called |-> TRUE, vacation_days |-> vacation_days, days |-> days]

\* ------------------------------------------------------- Employee methods

\* Faulty variant: += in place of -=.
subtract_vacation_days_adds(self, days) ==
    [self EXCEPT !.vacation_days = (self.vacation_days + days) % (U8Max + 1)]

\* self.vacation_days -= days on u8 (wraps in a build without overflow checks).
subtract_vacation_days(self, days) ==
    [self EXCEPT !.vacation_days = (self.vacation_days - days) % (U8Max + 1)]

\* Faulty variant: paying also consumes a day of the balance.
pay_debits(self) ==
    [self |-> IF self.vacation_days > 0
              THEN subtract_vacation_days(self, 1) ELSE self,
     ret |-> Unit, sub |-> NoSubtract,
     out |-> Println("Paying {} for {}.",
                     <<calculate_pay(self.wage), self.person.name>>)]

pay(self) ==
    [self |-> self, ret |-> Unit, sub |-> NoSubtract,
     out |-> Println("Paying {} for {}.",
                     <<calculate_pay(self.wage), self.person.name>>)]

\* Faulty variant: <= in the shortage check, the whole balance cannot be taken.
take_vacation_strict(self, days) ==
    IF self.vacation_days <= days
    THEN [self |-> self,
          ret |-> Err(days, self.vacation_days, ShortageMessage),
          sub |-> NoSubtract, out |-> NoOutput]
    ELSE LET after == subtract_vacation_days(self, days)
         IN  [self |-> after, ret |-> Ok,
              sub |-> Subtract(self.vacation_days, days),
              out |-> Println("Taking a vacation!. Holidays left: {}",
                              <<after.vacation_days>>)]

\* Faulty variant: a refused request still uses up what is left.
take_vacation_partial(self, days) ==
    IF self.vacation_days < days
    THEN [self |-> [self EXCEPT !.vacation_days = 0],
          ret |-> Err(days, self.vacation_days, ShortageMessage),
          sub |-> NoSubtract, out |-> NoOutput]
    ELSE LET after == subtract_vacation_days(self, days)
         IN  [self |-> after, ret |-> Ok,
              sub |-> Subtract(self.vacation_days, days),
              out |-> Println("Taking a vacation!. Holidays left: {}",
                              <<after.vacation_days>>)]

\* Faulty variant: the shortage check is off by one day.
take_vacation_off_by_one(self, days) ==
    IF self.vacation_days + 1 < days
    THEN [self |-> self,
          ret |-> Err(days, self.vacation_days, ShortageMessage),
          sub |-> NoSubtract, out |-> NoOutput]
    ELSE LET after == subtract_vacation_days(self, days)
         IN  [self |-> after, ret |-> Ok,
              sub |-> Subtract(self.vacation_days, days),
              out |-> Println("Taking a vacation!. Holidays left: {}",
                              <<after.vacation_days>>)]

take_vacation(self, days) ==
    IF self.vacation_days < days
    THEN [self |-> self,
          ret |-> Err(days, self.vacation_days, ShortageMessage),
          sub |-> NoSubtract, out |-> NoOutput]
    ELSE LET after == subtract_vacation_days(self, days)
         IN  [self |-> after, ret |-> Ok,
              sub |-> Subtract(self.vacation_days, days),
              out |-> Println("Taking a vacation!. Holidays left: {}",
                              <<after.vacation_days>>)]

\* Faulty variant: <= in the shortage check, a balance of 5 is refused.
payout_vacation_strict(self) ==
    IF self.vacation_days <= FIXED_VACATION_DAYS_PAYOUT
    THEN [self |-> self,
          ret |-> Err(FIXED_VACATION_DAYS_PAYOUT, self.vacation_days,
                      ShortageMessage),
          sub |-> NoSubtract, out |-> NoOutput]
    ELSE LET after == subtract_vacation_days(self, FIXED_VACATION_DAYS_PAYOUT)
         IN  [self |-> after, ret |-> Ok,
              sub |-> Subtract(self.vacation_days, FIXED_VACATION_DAYS_PAYOUT),
              out |-> Println("Paying out a holiday. Holidays left: {}",
                              <<after.vacation_days>>)]

\* Faulty variant: one holiday is paid out instead of the fixed five.
payout_vacation_one_day(self) ==
    IF self.vacation_days < FIXED_VACATION_DAYS_PAYOUT
    THEN [self |-> self,
          ret |-> Err(FIXED_VACATION_DAYS_PAYOUT, self.vacation_days,
                      ShortageMessage),
          sub |-> NoSubtract, out |-> NoOutput]
    ELSE LET after == subtract_vacation_days(self, 1)
         IN  [self |-> after, ret |-> Ok,
              sub |-> Subtract(self.vacation_days, 1),
              out |-> Println("Paying out a holiday. Holidays left: {}",
                              <<after.vacation_days>>)]

\* Faulty variant: no shortage check.
payout_vacation_unguarded(self) ==
    LET after == subtract_vacation_days(self, FIXED_VACATION_DAYS_PAYOUT)
    IN  [self |-> after, ret |-> Ok,
         sub |-> Subtract(self.vacation_days, FIXED_VACATION_DAYS_PAYOUT),
         out |-> Println("Paying out a holiday. Holidays left: {}",
                         <<after.vacation_days>>)]

payout_vacation(self) ==
    IF self.vacation_days < FIXED_VACATION_DAYS_PAYOUT
    THEN [self |-> self,
          ret |-> Err(FIXED_VACATION_DAYS_PAYOUT, self.vacation_days,
                      ShortageMessage),
          sub |-> NoSubtract, out |-> NoOutput]
    ELSE LET after == subtract_vacation_days(self, FIXED_VACATION_DAYS_PAYOUT)
         IN  [self |-> after, ret |-> Ok,
              sub |-> Subtract(self.vacation_days, FIXED_VACATION_DAYS_PAYOUT),
              out |-> Println("Paying out a holiday. Holidays left: {}",
                              <<after.vacation_days>>)]

\* -------------------------------------------------------- Company methods

Company_new(name, employees) == [name |-> name, employees |-> employees]

\* Faulty variant: insert(0, employee) in place of push(employee).
add_employee_front(self, employee) ==
    [self EXCEPT !.employees = <<employee>> \o self.employees]

add_employee(self, employee) ==
    [self EXCEPT !.employees = Append(self.employees, employee)]

all_employees(self) == self.employees

\* ------------------------------------------------------------------ state

VARIABLES
    held,          \* id -> Employee: the employees the caller owns
    company,       \* the Company value (meaningful once constructed)
    constructed,   \* TRUE once Company::new has run
    last,          \* the last call: its receiver, argument, return value, output
    created,       \* number of Employee::new calls so far; ids are 1..created
    initial_days,  \* history: id -> vacation_days given to Employee::new
    debited,       \* history: id -> sum of the days of the calls that returned Ok
    ctor_arg,      \* history: the Vec given to Company::new
    added,         \* history: the employees given to add_employee, in call order
    member_ids,    \* history: the ids moved into the company, in order of moving
    twin           \* id -> copy of the Employee driven by take_vacation(5)
                   \*       wherever the original is driven by payout_vacation()

vars == <<held, company, constructed, last, created, initial_days, debited,
          ctor_arg, added, member_ids, twin>>

Put(f, k, v) == [i \in DOMAIN f \cup {k} |-> IF i = k THEN v ELSE f[i]]
Drop(f, S) == [i \in DOMAIN f \ S |-> f[i]]
Range(s) == {s[i] : i \in DOMAIN s}

\* The sequences without repetition over subsets of S.
Arrangements(S) ==
    UNION {{s \in [1..n -> S] : \A i, j \in 1..n : s[i] = s[j] => i = j} :
           n \in 0..Cardinality(S)}

Call(op, target, arg, r, twin_ret) ==
    [op |-> op, target |-> target, arg |-> arg, ret |-> r.ret, out |-> r.out,
     sub |-> r.sub, twin_ret |-> twin_ret]

Silent(ret) == [ret |-> ret, out |-> NoOutput, sub |-> NoSubtract]

\* ----------------------------------------------------------------- inputs

\* Arguments of Employee::new used by the doc examples and tests, and an
\* hourly wage whose product needs more than 24 significant bits.
Hires ==
    { [person |-> Person_new("John", 30), role |-> "Manager",
       wage |-> SalariedWage_new(1000)],
      [person |-> Person_new("Jane", 25), role |-> "Developer",
       wage |-> SalariedWage_new(500)],
      [person |-> Person_new("John", 30), role |-> "Manager",
       wage |-> HourlyWage_new(10, 40)],
      [person |-> Person_new("Jane", 25), role |-> "Developer",
       wage |-> HourlyWage_new(16777215, 3)] }

VacationDays == (0..MaxVacationDays) \cup {U8Max}

Requests == (0..MaxRequest) \cup {U8Max}

StaffHires ==
    { [person |-> Person_new("John", 30), role |-> "Manager",
       wage |-> SalariedWage_new(1000)],
      [person |-> Person_new("Jane", 25), role |-> "Developer",
       wage |-> HourlyWage_new(20, 40)] }

StaffDays == {0, FIXED_VACATION_DAYS_PAYOUT}

StaffRequests == {0, FIXED_VACATION_DAYS_PAYOUT, FIXED_VACATION_DAYS_PAYOUT + 1}

\* Company<W> has one wage type W for all its employees.
SameWageType(employees) ==
    \A i, j \in DOMAIN employees : employees[i].wage.type = employees[j].wage.type

\* ------------------------------------------------------------------ Init

Init ==
    /\ held = << >>
    /\ twin = << >>
    /\ company = Company_new("", << >>)
    /\ constructed = FALSE
    /\ last = Call("start", 0, 0, Silent(Unit), Unit)
    /\ created = 0
    /\ initial_days = << >>
    /\ debited = << >>
    /\ ctor_arg = << >>
    /\ added = << >>
    /\ member_ids = << >>

\* --------------------------------------------------------------- actions

\* let employee = Employee::new(person, role, wage, vacation_days);
NewEmployee(limit, hires, days) ==
    /\ created < limit
    /\ \E h \in hires, v \in days :
         LET e == Employee_new(h.person, h.role, h.wage, v)
             id == created + 1
         IN  /\ held' = Put(held, id, e)
             /\ twin' = Put(twin, id, e)
             /\ created' = id
             /\ initial_days' = Append(initial_days, v)
             /\ debited' = Append(debited, 0)
             /\ last' = Call("Employee::new", id, v, Silent(Unit), Unit)
    /\ UNCHANGED <<company, constructed, ctor_arg, added, member_ids>>

\* employee.take_vacation(days)
VacationTaken(requests) ==
    \E id \in DOMAIN held, days \in requests :
        LET r == take_vacation(held[id], days)
            t == take_vacation(twin[id], days)
        IN  /\ held' = [held EXCEPT ![id] = r.self]
            /\ twin' = [twin EXCEPT ![id] = t.self]
            /\ debited' = [debited EXCEPT
                             ![id] = @ + IF r.ret.tag = "Ok" THEN days ELSE 0]
            /\ last' = Call("take_vacation", id, days, r, t.ret)
            /\ UNCHANGED <<company, constructed, created, initial_days,
                           ctor_arg, added, member_ids>>

EmployeeNew == NewEmployee(1, Hires, VacationDays)

TakeVacation == VacationTaken(Requests)

StaffNew == NewEmployee(MaxEmployees, StaffHires, StaffDays)

StaffTakeVacation == VacationTaken(StaffRequests)

\* employee.pay()
Pay ==
    \E id \in DOMAIN held :
        LET r == pay(held[id])
        IN  /\ held' = [held EXCEPT ![id] = r.self]
            /\ last' = Call("pay", id, 0, r, Unit)
            /\ UNCHANGED <<company, constructed, created, initial_days, debited,
                           ctor_arg, added, member_ids, twin>>

\* employee.wage.calculate_pay(), on a held employee or through all_employees().
CalculatePay ==
    \E wage \in {held[id].wage : id \in DOMAIN held}
                \cup (IF constructed
                      THEN {e.wage : e \in Range(all_employees(company))}
                      ELSE {}) :
        /\ last' = Call("calculate_pay", 0, wage, Silent(F32(calculate_pay(wage))),
                        Unit)
        /\ UNCHANGED <<held, company, constructed, created, initial_days, debited,
                       ctor_arg, added, member_ids, twin>>

\* employee.payout_vacation(); the twin takes take_vacation(5) instead.
PayoutVacation ==
    \E id \in DOMAIN held :
        LET r == payout_vacation(held[id])
            t == take_vacation(twin[id], 5)
        IN  /\ held' = [held EXCEPT ![id] = r.self]
            /\ twin' = [twin EXCEPT ![id] = t.self]
            /\ debited' = [debited EXCEPT
                             ![id] = @ + IF r.ret.tag = "Ok"
                                         THEN FIXED_VACATION_DAYS_PAYOUT ELSE 0]
            /\ last' = Call("payout_vacation", id, 0, r, t.ret)
            /\ UNCHANGED <<company, constructed, created, initial_days,
                           ctor_arg, added, member_ids>>

\* let mut company = Company::new(name, vec![...]); the employees are moved.
CompanyNew ==
    /\ ~constructed
    /\ \E ids \in Arrangements(DOMAIN held) :
         LET employees == [i \in 1..Len(ids) |-> held[ids[i]]]
         IN  /\ SameWageType(employees)
             /\ company' = Company_new("My Company", employees)
             /\ constructed' = TRUE
             /\ held' = Drop(held, Range(ids))
             /\ twin' = Drop(twin, Range(ids))
             /\ ctor_arg' = employees
             /\ member_ids' = ids
             /\ last' = Call("Company::new", 0, employees, Silent(Unit), Unit)
    /\ UNCHANGED <<created, initial_days, debited, added>>

\* company.add_employee(employee); the employee is moved.
AddEmployee ==
    /\ constructed
    /\ \E id \in DOMAIN held :
         /\ SameWageType(Append(company.employees, held[id]))
         /\ company' = add_employee(company, held[id])
         /\ held' = Drop(held, {id})
         /\ twin' = Drop(twin, {id})
         /\ added' = Append(added, held[id])
         /\ member_ids' = Append(member_ids, id)
         /\ last' = Call("add_employee", id, held[id], Silent(Unit), Unit)
    /\ UNCHANGED <<constructed, created, initial_days, debited, ctor_arg>>

\* company.all_employees()
AllEmployees ==
    /\ constructed
    /\ last' = Call("all_employees", 0, 0, Silent(Ref(all_employees(company))),
                    Unit)
    /\ UNCHANGED <<held, company, constructed, created, initial_days, debited,
                   ctor_arg, added, member_ids, twin>>

\* The whole program: employees, their pay and vacations, and a company.
Next ==
    \/ StaffNew
    \/ Pay
    \/ CalculatePay
    \/ StaffTakeVacation
    \/ PayoutVacation
    \/ CompanyNew
    \/ AddEmployee
    \/ AllEmployees

Spec == Init /\ [][Next]_vars

\* The lifetime of one employee, over the whole range of u8.
NextEmployee ==
    \/ EmployeeNew
    \/ Pay
    \/ CalculatePay
    \/ TakeVacation
    \/ PayoutVacation

SpecEmployee == Init /\ [][NextEmployee]_vars

\* ------------------------------------------------------------ properties

\* The employee with the given id, wherever it lives now.
EmployeeOf(id) ==
    IF id \in DOMAIN held THEN held[id]
    ELSE company.employees[CHOOSE i \in DOMAIN member_ids : member_ids[i] = id]

\* C1: for balance b and request d <= b (d = b and d = 0 included),
\* take_vacation(d) returns Ok(()) and the balance afterwards is b - d.
C1_TakeVacation ==
    [][\A id \in DOMAIN held :
         (/\ last'.op = "take_vacation"
          /\ last'.target = id
          /\ last'.arg <= held[id].vacation_days)
         => (/\ last'.ret = Ok
             /\ held'[id].vacation_days = held[id].vacation_days - last'.arg)]_vars

\* C1 witness: the whole balance u8::MAX was taken at once (d = b).
C1_Witness ==
    /\ last.op = "take_vacation"
    /\ last.ret = Ok
    /\ last.arg = U8Max
    /\ held[last.target].vacation_days = 0

\* C2: for balance b and request d > b, take_vacation(d) returns
\* Err {requested_days: d, remaining_days: b, message} and the employee is
\* as before, however often the request is repeated.
C2_Overdraft ==
    [][\A id \in DOMAIN held :
         (/\ last'.op = "take_vacation"
          /\ last'.target = id
          /\ last'.arg > held[id].vacation_days)
         => (/\ last'.ret = Err(last'.arg, held[id].vacation_days,
                                "Not enough vacation days are available.")
             /\ held'[id] = held[id]
             /\ debited' = debited)]_vars

\* C2 witness: a request refused on a balance that earlier calls had reduced.
C2_Witness ==
    /\ last.op = "take_vacation"
    /\ last.ret.tag = "Err"
    /\ last.ret.remaining_days > 0
    /\ debited[last.target] > 0

\* C3: payout_vacation() on balance b < 5 returns
\* Err {requested_days: 5, remaining_days: b} and leaves b; on b >= 5
\* (b = 5 included) it returns Ok(()) and the balance becomes b - 5.
C3_Payout ==
    [][\A id \in DOMAIN held :
         (last'.op = "payout_vacation" /\ last'.target = id)
         => IF held[id].vacation_days < 5
            THEN /\ last'.ret = Err(5, held[id].vacation_days,
                                    "Not enough vacation days are available.")
                 /\ held'[id] = held[id]
            ELSE /\ last'.ret = Ok
                 /\ held'[id].vacation_days = held[id].vacation_days - 5]_vars

\* C3 witness: a payout on a balance of exactly 5.
C3_Witness ==
    /\ last.op = "payout_vacation"
    /\ last.ret = Ok
    /\ last.sub.vacation_days = 5
    /\ held[last.target].vacation_days = 0

\* C4: payout_vacation() and take_vacation(5) agree: an employee and its
\* twin, driven by the same calls with take_vacation(5) in place of every
\* payout_vacation(), have the same outcome and the same balance at every step.
C4_PayoutIsTakeFive ==
    /\ \A id \in DOMAIN held :
         twin[id].vacation_days = held[id].vacation_days
    /\ last.op \in {"payout_vacation", "take_vacation"}
         => last.twin_ret.tag = last.ret.tag

\* C4 witness: a second payout in a row succeeded, on both copies.
C4_Witness ==
    /\ last.op = "payout_vacation"
    /\ last.ret = Ok
    /\ last.twin_ret = Ok
    /\ debited[last.target] > 5

\* C5: vacation_days changes only by a successful take_vacation or
\* payout_vacation on that employee; pay, calculate_pay, add_employee and
\* all_employees change no vacation_days, and a vacation call changes
\* neither person, role nor wage.
C5_Frame ==
    [][\A id \in 1..created :
         /\ EmployeeOf(id)'.vacation_days # EmployeeOf(id).vacation_days
              => /\ last'.op \in {"take_vacation", "payout_vacation"}
                 /\ last'.target = id
                 /\ last'.ret = Ok
         /\ last'.op \in {"pay", "calculate_pay", "add_employee", "all_employees"}
              => EmployeeOf(id)'.vacation_days = EmployeeOf(id).vacation_days
         /\ last'.op \in {"take_vacation", "payout_vacation"}
              => /\ EmployeeOf(id)'.person = EmployeeOf(id).person
                 /\ EmployeeOf(id)'.role = EmployeeOf(id).role
                 /\ EmployeeOf(id)'.wage = EmployeeOf(id).wage]_vars

\* C5 witness: add_employee has just put a second employee into the company,
\* after a vacation call had debited some employee's balance.
C5_Witness ==
    /\ last.op = "add_employee"
    /\ Len(company.employees) > 1
    /\ \E id \in 1..created : debited[id] > 0

\* C6 as stated: after n calls of add_employee, all_employees() has exactly
\* n entries, the i-th being the i-th employee added.
C6_ExactlyAdded ==
    constructed =>
        /\ Len(all_employees(company)) = Len(added)
        /\ \A i \in DOMAIN added : all_employees(company)[i] = added[i]

\* C6 amended: after Company::new was given k employees and add_employee was
\* called n times, all_employees() has exactly k + n entries: the k given to
\* the constructor, in their order, then the n added, in call order.
C6_InsertionOrder ==
    /\ constructed => all_employees(company) = ctor_arg \o added
    /\ last.op = "all_employees" => last.ret.value = ctor_arg \o added

\* C6 witness: all_employees() on a company built from one employee to which
\* a different one was added.
C6_Witness ==
    /\ last.op = "all_employees"
    /\ Len(ctor_arg) = 1
    /\ Len(added) = 1
    /\ ctor_arg[1] # added[1]

\* C7: a balance of 0 stays 0; from there take_vacation(0) is the only
\* vacation call that returns Ok, take_vacation(d) with d > 0 and
\* payout_vacation() return a shortage error with remaining_days = 0.
C7_ZeroIsTerminal ==
    [][\A id \in DOMAIN held :
         held[id].vacation_days = 0
         => /\ id \in DOMAIN held' => held'[id].vacation_days = 0
            /\ (last'.op = "take_vacation" /\ last'.target = id)
                 => IF last'.arg = 0 THEN last'.ret = Ok
                    ELSE /\ last'.ret.tag = "Err"
                         /\ last'.ret.requested_days = last'.arg
                         /\ last'.ret.remaining_days = 0
            /\ (last'.op = "payout_vacation" /\ last'.target = id)
                 => /\ last'.ret.tag = "Err"
                    /\ last'.ret.remaining_days = 0]_vars

\* C7 witness: a payout refused on a balance that was used up.
C7_Witness ==
    /\ last.op = "payout_vacation"
    /\ last.ret.tag = "Err"
    /\ last.ret.remaining_days = 0
    /\ initial_days[last.target] > 0

\* The wage parameters' product as a real number.
ExactPay(wage) ==
    IF wage.type = "SalariedWage" THEN wage.monthly_salary
    ELSE wage.hourly_rate * wage.hours_worked

\* C8 as stated: calculate_pay() is monthly_salary for a salaried wage and
\* exactly hourly_rate * hours_worked for an hourly wage.
C8_ExactProduct ==
    last.op = "calculate_pay" => last.ret.value = ExactPay(last.arg)

\* C8 amended: calculate_pay() is monthly_salary for a salaried wage and, for
\* an hourly wage, hourly_rate * hours_worked rounded to the nearest f32
\* (the exact product when that is an f32: 10 * 40 = 400); it depends on the
\* wage alone and the call changes no state.
C8_PurePay ==
    [][last'.op = "calculate_pay"
         => /\ last'.ret = F32(F32Round(ExactPay(last'.arg)))
            /\ ExactPay(last'.arg) < Pow2(F32MantissaDigits)
                 => last'.ret.value = ExactPay(last'.arg)
            /\ UNCHANGED <<held, company, constructed, created, initial_days,
                           debited, ctor_arg, added, member_ids, twin>>]_vars

\* C8 witness: calculate_pay() on an hourly wage, after vacation calls, whose
\* result is not the exact product.
C8_Witness ==
    /\ last.op = "calculate_pay"
    /\ last.arg.type = "HourlyWage"
    /\ last.ret.value # ExactPay(last.arg)
    /\ \E id \in DOMAIN held : debited[id] > 0

\* C9: subtract_vacation_days(days) is only called with days <= vacation_days,
\* so no balance is ever a wrapped-around value.
C9_NoUnderflow ==
    /\ last.sub.called => last.sub.days <= last.sub.vacation_days
    /\ \A id \in DOMAIN held :
         /\ held[id].vacation_days \in 0..U8Max
         /\ held[id].vacation_days <= initial_days[id]

\* C9 witness: subtract_vacation_days was called with days = vacation_days > 0.
C9_Witness ==
    /\ last.sub.called
    /\ last.sub.days = last.sub.vacation_days
    /\ last.sub.days > 0

\* C10: the balance is the initial balance minus the days of the calls that
\* returned Ok (5 for a payout), and no call raises it.
C10_Conservation ==
    [][\A id \in DOMAIN held' :
         /\ held'[id].vacation_days = initial_days'[id] - debited'[id]
         /\ id \in DOMAIN held
              => held'[id].vacation_days <= held[id].vacation_days]_vars

\* C10 witness: a call refused on a balance still above 0, after more than
\* five days had been debited by calls that returned Ok.
C10_Witness ==
    /\ last.op \in {"take_vacation", "payout_vacation"}
    /\ last.ret.tag = "Err"
    /\ debited[last.target] > 5
    /\ held[last.target].vacation_days > 0

====
